---- MODULE Spec2Model ----
(***************************************************************************)
(* Authentication / e-mail verification subsystem of illumate-api.         *)
(*                                                                         *)
(* The HTTP handlers of app/main.py are modelled one action per request,   *)
(* over the two storage back ends behind DatabaseInterface:                *)
(*   - MockDatabase (tenants, users, email_to_user, verification_tokens),  *)
(*     one instance shared by all requests, as the test suites inject it   *)
(*     (SpecFactory has the instances the application itself creates);     *)
(*   - the relational tables reached through RealDatabase and crud         *)
(*     (db_tenants, db_users) with their unique constraints.               *)
(* uuid4() and secrets.token_urlsafe(32) are modelled as fresh values      *)
(* drawn from counters; the e-mail transport's boolean result is a         *)
(* nondeterministic input of the request.  Of the CRUD routes only         *)
(* POST /users/ (administrative user creation, always on the relational    *)
(* tables) is modelled; role and locale are carried by no check and are    *)
(* left out of the records.                                                *)
(*                                                                         *)
(* The specifications share the handlers:                                  *)
(*   Spec            - registration, verification, login, stopped clock;   *)
(*   SpecAuth        - sessions: the clock advances, /auth/me resolves     *)
(*                     the tokens requests present, users can be deleted;  *)
(*   SpecStorage     - the storage interface, the factory and the          *)
(*                     password hasher called directly;                    *)
(*   SpecInterchange - one storage call given to both stores at once;      *)
(*   SpecConcurrent  - register and resend one storage call at a time,     *)
(*                     on two threads;                                     *)
(*   SpecToken       - create_access_token called with any duration;       *)
(*   SpecFactory     - the store resolved for each request by the          *)
(*                     factory, a new MockDatabase() each time;            *)
(*   SpecCollide     - secrets.token_urlsafe may return a value again.     *)
(* A session token (JWT) is the record of its claims and signing key.      *)
(***************************************************************************)
EXTENDS Integers, FiniteSets, Sequences, TLC

\* ---------------------------------------------------------------- bounds
MaxTenants == 2
MaxUsers == 2
MaxToken == 3

Emails == {"a@x.com", "b@x.com"}
\* passwords tried at login, and the ones accounts are created with
Passwords == {"pw1", "pw2"}
AccountPasswords == {"pw1"}
TenantNames == {"Acme", "Beta"}
DatabaseTypes == {"mock", "real"}

\* Python's None for identifiers and verification tokens
None == 0

ACCESS_TOKEN_EXPIRE_MINUTES == 30
DEFAULT_EXPIRE_MINUTES == 15
\* max_age of the session_token cookie, in seconds
SESSION_COOKIE_MAX_AGE == 1800

\* the instants (minutes) at which the clock is read
Instants == {0, 15, 30, 31}

VARIABLES
    database_type,        \* DATABASE_TYPE: which DatabaseInterface the handlers get
    tenants,              \* MockDatabase.tenants: id -> tenant
    users,                \* MockDatabase.users: id -> user
    email_to_user,        \* MockDatabase.email_to_user: email -> user id
    verification_tokens,  \* MockDatabase.verification_tokens: token -> user id
    db_tenants,           \* table "tenants": id -> row
    db_users,             \* table "users": id -> row
    tenant_uuids,         \* number of uuid4() values handed out as tenant ids
    user_uuids,           \* number of uuid4() values handed out as user ids
    tokens_generated,     \* number of verification tokens generated
    next_token,           \* the value the next token generation returns
    now,                  \* the clock, in minutes
    request,              \* the request being answered
    response,             \* the handler's answer to it
    verified_tokens,      \* history: tokens a Verify request has succeeded with
    replaced_tokens,      \* history: tokens overwritten by a successful Resend
    in_flight             \* requests a worker thread is part-way through

vars == <<database_type, tenants, users, email_to_user, verification_tokens,
          db_tenants, db_users, tenant_uuids, user_uuids, tokens_generated,
          next_token, now, request, response, verified_tokens, replaced_tokens,
          in_flight>>

store == <<tenants, users, email_to_user, verification_tokens, db_tenants, db_users>>

\* ------------------------------------------------------- credential hasher
\* bcrypt reads the first 72 bytes of a secret and no more: two passwords of
\* 73 bytes with the same first 72, and the 72 bytes they share
Password72 == "xxxxxxxxxxxxxxxxxxxxxxxxxxxxxxxxxxxxxxxxxxxxxxxxxxxxxxxxxxxxxxxxxxxxxxxx"

Password73a == "xxxxxxxxxxxxxxxxxxxxxxxxxxxxxxxxxxxxxxxxxxxxxxxxxxxxxxxxxxxxxxxxxxxxxxxxa"

Password73b == "xxxxxxxxxxxxxxxxxxxxxxxxxxxxxxxxxxxxxxxxxxxxxxxxxxxxxxxxxxxxxxxxxxxxxxxxb"

LongPasswords == {Password72, Password73a, Password73b}

bcrypt_secret(password) ==
    IF password \in {Password73a, Password73b} THEN Password72 ELSE password

\* a digest is the scheme that made it and the secret it was made of (the salt
\* changes the text of the digest, not what verifies against it)
get_password_hash(password) == [scheme |-> "bcrypt", digest |-> bcrypt_secret(password)]

verify_password(plain_password, hashed_password) ==
    /\ hashed_password.scheme = "bcrypt"
    /\ hashed_password.digest = bcrypt_secret(plain_password)

\* pwd_context.verify cannot identify a digest that is not a bcrypt hash and
\* raises UnknownHashError instead of returning; verify_password catches nothing
verify_password_raises(hashed_password) == hashed_password.scheme # "bcrypt"

\* ------------------------------------------------------------ session token
SECRET_KEY == "SECRET_KEY"

\* keys a presented token may be signed with: the server's and a foreign one
Keys == {SECRET_KEY, "foreign key"}

\* a JWT: its "sub" and "exp" claims and the key its signature was made with;
\* NoToken is the absent (None or empty) token
NoToken == [sub |-> None, exp |-> 0, key |-> ""]

\* mutant: a zero expires_delta is a lifetime like any other
create_access_token_zero_lifetime(sub, expires_delta) ==
    [sub |-> sub, exp |-> now + expires_delta, key |-> SECRET_KEY]

\* expires_delta = 0 stands for both None and timedelta(0): `if expires_delta:`
\* takes neither
create_access_token(sub, expires_delta) ==
    [sub |-> sub,
     exp |-> IF expires_delta # 0 THEN now + expires_delta
             ELSE now + DEFAULT_EXPIRE_MINUTES,
     key |-> SECRET_KEY]

\* the payload jwt.decode returns; NoPayload is verify_token's None
NoPayload == [sub |-> None, exp |-> -1]

\* mutant: a token is taken as expired from its expiry instant on
verify_token_expired_early(token) ==
    IF token.key = SECRET_KEY /\ token.exp > now
    THEN [sub |-> token.sub, exp |-> token.exp]
    ELSE NoPayload

\* mutant: the signature is not checked
verify_token_unsigned(token) ==
    IF ~(token.exp < now)
    THEN [sub |-> token.sub, exp |-> token.exp]
    ELSE NoPayload

\* jwt.decode checks the signature against SECRET_KEY and raises once the
\* clock has passed "exp" (exp < now); every JWTError becomes None
verify_token(token) ==
    IF token.key = SECRET_KEY /\ ~(token.exp < now)
    THEN [sub |-> token.sub, exp |-> token.exp]
    ELSE NoPayload

\* ------------------------------------------------------------------ records
NoUser == [id |-> None, email |-> "", password_hash |-> [scheme |-> "", digest |-> ""],
           tenant_id |-> None, is_verified |-> FALSE, verification_token |-> None]

NoTenant == [id |-> None, name |-> ""]

NewUser(id, user_data) ==
    [id |-> id, email |-> user_data.email, password_hash |-> user_data.password_hash,
     tenant_id |-> user_data.tenant_id, is_verified |-> user_data.is_verified,
     verification_token |-> user_data.verification_token]

\* ------------------------------------------------------------- MockDatabase
Mock_get_tenant(tenant_id) ==
    IF tenant_id \in DOMAIN tenants THEN tenants[tenant_id] ELSE NoTenant

Mock_get_user(user_id) ==
    IF user_id \in DOMAIN users THEN users[user_id] ELSE NoUser

Mock_get_user_by_email(email) ==
    IF email \in DOMAIN email_to_user THEN Mock_get_user(email_to_user[email]) ELSE NoUser

Mock_get_user_by_verification_token(token) ==
    IF token \in DOMAIN verification_tokens
    THEN Mock_get_user(verification_tokens[token]) ELSE NoUser

\* create_tenant: always stores, no constraint on the name
Mock_create_tenant(id, name) ==
    tenants' = tenants @@ (id :> [id |-> id, name |-> name])

Mock_create_user(id, user_data) ==
    /\ users' = users @@ (id :> NewUser(id, user_data))
    /\ email_to_user' = [e \in DOMAIN email_to_user \cup {user_data.email} |->
                            IF e = user_data.email THEN id ELSE email_to_user[e]]
    /\ verification_tokens' =
          IF user_data.verification_token # None
          THEN [t \in DOMAIN verification_tokens \cup {user_data.verification_token} |->
                   IF t = user_data.verification_token THEN id ELSE verification_tokens[t]]
          ELSE verification_tokens

\* mutant: the in-memory store keeps the caller's is_verified
Mock_create_user_with_password_as_given(id, user_data, password) ==
    Mock_create_user(id, [user_data EXCEPT
                             !.password_hash = [scheme |-> "hashed_", digest |-> password]])

\* create_user_with_password: the digest is "hashed_" followed by the password
Mock_create_user_with_password(id, user_data, password) ==
    Mock_create_user(id, [user_data EXCEPT
                             !.password_hash = [scheme |-> "hashed_", digest |-> password],
                             !.is_verified = TRUE])

\* update_user_verification: the record's token and the index are written only
\* when the token argument is not None; the branch that deletes the old index
\* entry needs a token that is not None and falsy, which no caller passes.
Mock_update_user_verification(user_id, is_verified, verification_token) ==
    IF user_id \notin DOMAIN users
    THEN UNCHANGED <<users, verification_tokens>>
    ELSE /\ users' = [users EXCEPT ![user_id] =
                        [@ EXCEPT !.is_verified = is_verified,
                                  !.verification_token =
                                      IF verification_token # None
                                      THEN verification_token ELSE @]]
         /\ verification_tokens' =
               IF verification_token # None
               THEN [t \in DOMAIN verification_tokens \cup {verification_token} |->
                        IF t = verification_token THEN user_id ELSE verification_tokens[t]]
               ELSE verification_tokens

\* ------------------------------------------------ RealDatabase and crud (SQL)
\* query(...).filter(...).first(): a matching row, or None
First(table, ids) == IF ids = {} THEN NoUser ELSE table[CHOOSE id \in ids : TRUE]

Real_get_tenant(tenant_id) ==
    IF tenant_id \in DOMAIN db_tenants THEN db_tenants[tenant_id] ELSE NoTenant

Real_get_user(user_id) ==
    IF user_id \in DOMAIN db_users THEN db_users[user_id] ELSE NoUser

Real_get_user_by_email(email) ==
    First(db_users, {id \in DOMAIN db_users : db_users[id].email = email})

Real_get_user_by_verification_token(token) ==
    First(db_users, {id \in DOMAIN db_users : db_users[id].verification_token = token})

\* Tenant.name is unique: the INSERT is rejected when the name is taken
TenantInsertOk(name) == \A id \in DOMAIN db_tenants : db_tenants[id].name # name

\* User.email and User.verification_token are unique (NULLs do not collide)
UserInsertOk(user_data) ==
    \A id \in DOMAIN db_users :
        /\ db_users[id].email # user_data.email
        /\ \/ user_data.verification_token = None
           \/ db_users[id].verification_token # user_data.verification_token

\* the UPDATE of a row's verification_token is rejected when another row has it
UserUpdateOk(user_id, verification_token) ==
    \A id \in DOMAIN db_users \ {user_id} :
        db_users[id].verification_token # verification_token

Real_create_tenant(id, name) ==
    db_tenants' = db_tenants @@ (id :> [id |-> id, name |-> name])

Real_create_user(id, user_data) ==
    db_users' = db_users @@ (id :> NewUser(id, user_data))

Real_create_user_with_password(id, user_data, password) ==
    Real_create_user(id, [user_data EXCEPT
                             !.password_hash = get_password_hash(password),
                             !.is_verified = TRUE])

Real_update_user_verification(user_id, is_verified, verification_token) ==
    IF user_id \notin DOMAIN db_users
    THEN UNCHANGED db_users
    ELSE db_users' = [db_users EXCEPT ![user_id] =
                        [@ EXCEPT !.is_verified = is_verified,
                                  !.verification_token =
                                      IF verification_token # None
                                      THEN verification_token ELSE @]]

\* ------------------------------------- the DatabaseInterface a handler is given
get_tenant(tenant_id) ==
    IF database_type = "mock" THEN Mock_get_tenant(tenant_id) ELSE Real_get_tenant(tenant_id)

get_user(user_id) ==
    IF database_type = "mock" THEN Mock_get_user(user_id) ELSE Real_get_user(user_id)

get_user_by_email(email) ==
    IF database_type = "mock" THEN Mock_get_user_by_email(email)
    ELSE Real_get_user_by_email(email)

get_user_by_verification_token(token) ==
    IF database_type = "mock" THEN Mock_get_user_by_verification_token(token)
    ELSE Real_get_user_by_verification_token(token)

\* mutant: only the flag is written, the token argument is dropped
update_user_verification_flag_only(user_id, is_verified, verification_token) ==
    IF database_type = "mock"
    THEN /\ Mock_update_user_verification(user_id, is_verified, None)
         /\ UNCHANGED db_users
    ELSE /\ Real_update_user_verification(user_id, is_verified, None)
         /\ UNCHANGED <<users, verification_tokens>>

update_user_verification(user_id, is_verified, verification_token) ==
    IF database_type = "mock"
    THEN /\ Mock_update_user_verification(user_id, is_verified, verification_token)
         /\ UNCHANGED db_users
    ELSE /\ Real_update_user_verification(user_id, is_verified, verification_token)
         /\ UNCHANGED <<users, verification_tokens>>

\* ------------------------------------------------------ requests and responses
UserRegistered == "User registered successfully. Please check your email for verification."

EmailNotVerified == "Email not verified. Please check your email and verify your account."

NoMail == {}

Mail(kind, to, token, sent) == [kind |-> kind, to |-> to, token |-> token, sent |-> sent]

Req(op, email, password, token, name) ==
    [op |-> op, email |-> email, password |-> password, token |-> token, name |-> name]

\* no request is being answered
NoRequest == Req("none", "", "", None, "")

\* max_age is the max-age of the cookie the response sets, 0 when it sets none
Resp(status, detail, user_id, cookie_op, access_token, mails) ==
    [status |-> status, detail |-> detail, user_id |-> user_id,
     cookie_op |-> cookie_op, access_token |-> access_token, mails |-> mails,
     max_age |-> 0]

Fail(status, detail) == Resp(status, detail, None, "none", NoToken, NoMail)

EmptyMap == [x \in {} |-> None]

\* Handlers are plain functions: FastAPI runs each request on a thread of its
\* pool, so two requests can be between their storage calls at one time.
Slots == {"first", "second"}

\* a thread that is answering no request
Idle == [op |-> "none", at |-> "", email |-> "", password |-> "", tenant_name |-> "",
         tenant_id |-> None, user |-> NoUser]

Init ==
    /\ database_type \in DatabaseTypes
    /\ tenants = EmptyMap
    /\ users = EmptyMap
    /\ email_to_user = EmptyMap
    /\ verification_tokens = EmptyMap
    /\ db_tenants = EmptyMap
    /\ db_users = EmptyMap
    /\ tenant_uuids = 0
    /\ user_uuids = 0
    /\ tokens_generated = 0
    /\ next_token = 1
    /\ now = 0
    /\ request = NoRequest
    /\ response = Fail(0, "")
    /\ verified_tokens = {}
    /\ replaced_tokens = {}
    /\ in_flight = [slot \in Slots |-> Idle]

\* ------------------------------------------------------------ fresh values
new_tenant_id == tenant_uuids + 1

new_user_id == user_uuids + 1

generate_verification_token == next_token

\* ------------------------------------------------------- POST /auth/register
\* mutant: the two writes of register are one transaction, a failed user
\* insert takes the tenant back
register_create_atomic(email, password, tenant_name, email_sent) ==
    LET tenant_id == new_tenant_id
        user_id == new_user_id
        verification_token == generate_verification_token
        user_data == [email |-> email,
                      password_hash |-> get_password_hash(password),
                      tenant_id |-> tenant_id,
                      is_verified |-> FALSE,
                      verification_token |-> verification_token]
        created == Resp(201, UserRegistered, user_id, "none", NoToken,
                        {Mail("verification", email, verification_token, email_sent)})
    IN  IF database_type = "real" /\ ~TenantInsertOk(tenant_name)
        THEN /\ response' = Fail(500, "Internal Server Error")
             /\ UNCHANGED <<store, tenant_uuids, user_uuids, tokens_generated, next_token>>
        ELSE /\ tenant_uuids < MaxTenants
             /\ user_uuids < MaxUsers
             /\ tokens_generated < MaxToken
             /\ tenant_uuids' = tenant_uuids + 1
             /\ tokens_generated' = tokens_generated + 1
             /\ next_token' = tokens_generated + 2
             /\ IF database_type = "mock"
                THEN /\ Mock_create_tenant(tenant_id, tenant_name)
                     /\ Mock_create_user(user_id, user_data)
                     /\ user_uuids' = user_uuids + 1
                     /\ UNCHANGED <<db_tenants, db_users>>
                     /\ response' = created
                ELSE /\ UNCHANGED <<tenants, users, email_to_user, verification_tokens>>
                     /\ IF UserInsertOk(user_data)
                        THEN /\ Real_create_tenant(tenant_id, tenant_name)
                             /\ Real_create_user(user_id, user_data)
                             /\ user_uuids' = user_uuids + 1
                             /\ response' = created
                        ELSE /\ UNCHANGED <<db_tenants, db_users, user_uuids>>
                             /\ response' = Fail(500, "Internal Server Error")

\* the part of register after the e-mail check: create the tenant, then the user,
\* then send the verification mail (whose result is ignored)
register_create(email, password, tenant_name, email_sent) ==
    LET tenant_id == new_tenant_id
        user_id == new_user_id
        verification_token == generate_verification_token
        user_data == [email |-> email,
                      password_hash |-> get_password_hash(password),
                      tenant_id |-> tenant_id,
                      is_verified |-> FALSE,
                      verification_token |-> verification_token]
        created == Resp(201, UserRegistered, user_id, "none", NoToken,
                        {Mail("verification", email, verification_token, email_sent)})
    IN  IF database_type = "real" /\ ~TenantInsertOk(tenant_name)
        THEN \* create_tenant raises IntegrityError: nothing is stored
             /\ response' = Fail(500, "Internal Server Error")
             /\ UNCHANGED <<store, tenant_uuids, user_uuids, tokens_generated, next_token>>
        ELSE /\ tenant_uuids < MaxTenants
             /\ user_uuids < MaxUsers
             /\ tokens_generated < MaxToken
             /\ tenant_uuids' = tenant_uuids + 1
             /\ tokens_generated' = tokens_generated + 1
             /\ next_token' = tokens_generated + 2
             /\ IF database_type = "mock"
                THEN /\ Mock_create_tenant(tenant_id, tenant_name)
                     /\ Mock_create_user(user_id, user_data)
                     /\ user_uuids' = user_uuids + 1
                     /\ UNCHANGED <<db_tenants, db_users>>
                     /\ response' = created
                ELSE /\ Real_create_tenant(tenant_id, tenant_name)
                     /\ UNCHANGED <<tenants, users, email_to_user, verification_tokens>>
                     /\ IF UserInsertOk(user_data)
                        THEN /\ Real_create_user(user_id, user_data)
                             /\ user_uuids' = user_uuids + 1
                             /\ response' = created
                        ELSE \* create_user raises after the tenant was committed
                             /\ UNCHANGED <<db_users, user_uuids>>
                             /\ response' = Fail(500, "Internal Server Error")

\* mutant: register without the e-mail check
register_no_check(email, password, tenant_name, email_sent) ==
    /\ request' = Req("register", email, "", None, tenant_name)
    /\ UNCHANGED <<database_type, in_flight, now, verified_tokens, replaced_tokens>>
    /\ register_create(email, password, tenant_name, email_sent)

\* mutant: register that looks the e-mail up only after creating the tenant
register_late_check(email, password, tenant_name, email_sent) ==
    /\ request' = Req("register", email, "", None, tenant_name)
    /\ UNCHANGED <<database_type, in_flight, now, verified_tokens, replaced_tokens>>
    /\ IF get_user_by_email(email).id # None
       THEN /\ response' = Fail(400, "Email already registered")
            /\ tenant_uuids < MaxTenants
            /\ tenant_uuids' = tenant_uuids + 1
            /\ IF database_type = "mock"
               THEN /\ Mock_create_tenant(new_tenant_id, tenant_name)
                    /\ UNCHANGED db_tenants
               ELSE /\ Real_create_tenant(new_tenant_id, tenant_name)
                    /\ UNCHANGED tenants
            /\ UNCHANGED <<users, email_to_user, verification_tokens, db_users,
                           user_uuids, tokens_generated, next_token>>
       ELSE register_create(email, password, tenant_name, email_sent)

register(email, password, tenant_name, email_sent) ==
    LET existing_user == get_user_by_email(email)
    IN  /\ request' = Req("register", email, "", None, tenant_name)
        /\ UNCHANGED <<database_type, in_flight, now, verified_tokens, replaced_tokens>>
        /\ IF existing_user.id # None
           THEN /\ response' = Fail(400, "Email already registered")
                /\ UNCHANGED <<store, tenant_uuids, user_uuids, tokens_generated, next_token>>
           ELSE register_create(email, password, tenant_name, email_sent)

\* ---------------------------------------------------------- POST /auth/login
\* mutant: login without the is_verified check
login_response_unverified(email, password) ==
    LET user == get_user_by_email(email)
    IN  IF user.id = None \/ ~verify_password(password, user.password_hash)
        THEN Fail(401, "Incorrect email or password")
        ELSE Resp(200, "Login successful", user.id, "set",
                  create_access_token(user.id, ACCESS_TOKEN_EXPIRE_MINUTES), NoMail)

\* mutant: login without the password check
login_response_any_password(email, password) ==
    LET user == get_user_by_email(email)
    IN  IF user.id = None
        THEN Fail(401, "Incorrect email or password")
        ELSE IF ~user.is_verified
        THEN Fail(401, EmailNotVerified)
        ELSE Resp(200, "Login successful", user.id, "set",
                  create_access_token(user.id, ACCESS_TOKEN_EXPIRE_MINUTES), NoMail)

\* mutant: login leaves the token's lifetime to create_access_token's default
login_response_default_ttl(email, password) ==
    LET user == get_user_by_email(email)
        access_token == create_access_token(user.id, 0)
    IN  IF user.id = None \/ ~verify_password(password, user.password_hash)
        THEN Fail(401, "Incorrect email or password")
        ELSE IF ~user.is_verified
        THEN Fail(401, EmailNotVerified)
        ELSE [Resp(200, "Login successful", user.id, "set", access_token, NoMail)
                 EXCEPT !.max_age = SESSION_COOKIE_MAX_AGE]

\* mutant: login tells an unknown e-mail from a wrong password
login_response_user_not_found(email, password) ==
    LET user == get_user_by_email(email)
        access_token == create_access_token(user.id, ACCESS_TOKEN_EXPIRE_MINUTES)
    IN  IF user.id = None
        THEN Fail(404, "User not found")
        ELSE IF verify_password_raises(user.password_hash)
        THEN Fail(500, "Internal Server Error")
        ELSE IF ~verify_password(password, user.password_hash)
        THEN Fail(401, "Incorrect email or password")
        ELSE IF ~user.is_verified
        THEN Fail(401, EmailNotVerified)
        ELSE [Resp(200, "Login successful", user.id, "set", access_token, NoMail)
                 EXCEPT !.max_age = SESSION_COOKIE_MAX_AGE]

\* mutant: login looks at the verification flag before the password
login_response_flag_first(email, password) ==
    LET user == get_user_by_email(email)
        access_token == create_access_token(user.id, ACCESS_TOKEN_EXPIRE_MINUTES)
    IN  IF user.id = None
        THEN Fail(401, "Incorrect email or password")
        ELSE IF ~user.is_verified
        THEN Fail(401, EmailNotVerified)
        ELSE IF verify_password_raises(user.password_hash)
        THEN Fail(500, "Internal Server Error")
        ELSE IF ~verify_password(password, user.password_hash)
        THEN Fail(401, "Incorrect email or password")
        ELSE [Resp(200, "Login successful", user.id, "set", access_token, NoMail)
                 EXCEPT !.max_age = SESSION_COOKIE_MAX_AGE]

\* the response login computes from the stored user
login_response(email, password) ==
    LET user == get_user_by_email(email)
        access_token == create_access_token(user.id, ACCESS_TOKEN_EXPIRE_MINUTES)
    IN  IF user.id = None
        THEN Fail(401, "Incorrect email or password")
        ELSE IF verify_password_raises(user.password_hash)
        THEN \* the exception leaves login unhandled
             Fail(500, "Internal Server Error")
        ELSE IF ~verify_password(password, user.password_hash)
        THEN Fail(401, "Incorrect email or password")
        ELSE IF ~user.is_verified
        THEN Fail(401, EmailNotVerified)
        ELSE [Resp(200, "Login successful", user.id, "set", access_token, NoMail)
                 EXCEPT !.max_age = SESSION_COOKIE_MAX_AGE]

\* mutant: login marks the user verified once the password has matched
login_verifying(email, password) ==
    LET user == get_user_by_email(email)
    IN  /\ request' = Req("login", email, password, None, "")
        /\ response' = login_response(email, password)
        /\ IF user.id # None /\ verify_password(password, user.password_hash)
           THEN update_user_verification(user.id, TRUE, None)
           ELSE UNCHANGED <<users, verification_tokens, db_users>>
        /\ UNCHANGED <<database_type, in_flight, now, tenants, email_to_user, db_tenants,
                       tenant_uuids, user_uuids, tokens_generated, next_token,
                       verified_tokens, replaced_tokens>>

login(email, password) ==
    /\ request' = Req("login", email, password, None, "")
    /\ response' = login_response(email, password)
    /\ UNCHANGED <<database_type, in_flight, now, store, tenant_uuids, user_uuids, tokens_generated, next_token,
                   verified_tokens, replaced_tokens>>

\* ---------------------------------------------------------- GET /auth/verify
\* mutant: Verify commits and answers 200 only when the welcome mail was sent
verify_email_needs_mail(token, email_sent) ==
    LET user == get_user_by_verification_token(token)
        tenant == get_tenant(user.tenant_id)
    IN  /\ request' = Req("verify", "", "", token, "")
        /\ UNCHANGED <<database_type, in_flight, now, tenants, email_to_user, db_tenants,
                       tenant_uuids, user_uuids, tokens_generated, next_token,
                       replaced_tokens>>
        /\ IF user.id = None
           THEN /\ response' = Fail(400, "Invalid or expired verification token")
                /\ UNCHANGED <<users, verification_tokens, db_users, verified_tokens>>
           ELSE IF tenant.id # None /\ ~email_sent
           THEN /\ response' = Resp(500, "Failed to send welcome email", None, "none",
                                    NoToken, {Mail("welcome", user.email, None, FALSE)})
                /\ UNCHANGED <<users, verification_tokens, db_users, verified_tokens>>
           ELSE /\ update_user_verification(user.id, TRUE, None)
                /\ response' = Resp(200, "Email verified successfully", None, "none", NoToken,
                                    IF tenant.id # None
                                    THEN {Mail("welcome", user.email, None, email_sent)}
                                    ELSE NoMail)
                /\ verified_tokens' = verified_tokens \cup {token}

verify_email(token, email_sent) ==
    LET user == get_user_by_verification_token(token)
        tenant == get_tenant(user.tenant_id)
    IN  /\ request' = Req("verify", "", "", token, "")
        /\ UNCHANGED <<database_type, in_flight, now, tenants, email_to_user, db_tenants, tenant_uuids, user_uuids,
                       tokens_generated, next_token, replaced_tokens>>
        /\ IF user.id = None
           THEN /\ response' = Fail(400, "Invalid or expired verification token")
                /\ UNCHANGED <<users, verification_tokens, db_users, verified_tokens>>
           ELSE /\ update_user_verification(user.id, TRUE, None)
                /\ response' = Resp(200, "Email verified successfully", None, "none", NoToken,
                                    IF tenant.id # None
                                    THEN {Mail("welcome", user.email, None, email_sent)}
                                    ELSE NoMail)
                /\ verified_tokens' = verified_tokens \cup {token}

\* ------------------------------------------- POST /auth/resend-verification
\* mutant: the new token is persisted only once the mail has gone out
resend_send_atomic(user, email, email_sent) ==
    LET new_verification_token == generate_verification_token
    IN  /\ tokens_generated < MaxToken
        /\ tokens_generated' = tokens_generated + 1
        /\ next_token' = tokens_generated + 2
        /\ IF email_sent
           THEN /\ update_user_verification(user.id, FALSE, new_verification_token)
                /\ replaced_tokens' = replaced_tokens \cup
                                         (IF user.verification_token # None
                                          THEN {user.verification_token} ELSE {})
                /\ response' = Resp(200, "Verification email sent successfully", None,
                                    "none", NoToken,
                                    {Mail("verification", email, new_verification_token,
                                          TRUE)})
           ELSE /\ UNCHANGED <<users, verification_tokens, db_users, replaced_tokens>>
                /\ response' = Resp(500, "Failed to send verification email", None,
                                    "none", NoToken,
                                    {Mail("verification", email, new_verification_token,
                                          FALSE)})

\* the part of resend_verification_email after its two checks: generate a token,
\* persist it, then send the mail and fail with 500 when the transport says no.
\* (update_user_verification returns the user here, the user was just read.)
resend_send(user, email, email_sent) ==
    LET new_verification_token == generate_verification_token
    IN  /\ tokens_generated < MaxToken
        /\ tokens_generated' = tokens_generated + 1
        /\ next_token' = tokens_generated + 2
        /\ IF database_type = "real" /\ ~UserUpdateOk(user.id, new_verification_token)
           THEN \* the commit raises IntegrityError: nothing is stored or sent
                /\ response' = Fail(500, "Internal Server Error")
                /\ UNCHANGED <<users, verification_tokens, db_users, replaced_tokens>>
           ELSE /\ update_user_verification(user.id, FALSE, new_verification_token)
                /\ replaced_tokens' = replaced_tokens \cup
                                         (IF email_sent /\ user.verification_token # None
                                          THEN {user.verification_token} ELSE {})
                /\ response' =
                      IF email_sent
                      THEN Resp(200, "Verification email sent successfully", None, "none",
                                NoToken,
                                {Mail("verification", email, new_verification_token,
                                      TRUE)})
                      ELSE Resp(500, "Failed to send verification email", None, "none",
                                NoToken,
                                {Mail("verification", email, new_verification_token,
                                      FALSE)})

\* mutant: resend without the "already verified" check
resend_verification_email_unchecked(email, email_sent) ==
    LET user == get_user_by_email(email)
    IN  /\ request' = Req("resend", email, "", None, "")
        /\ UNCHANGED <<database_type, in_flight, now, tenants, email_to_user, db_tenants, tenant_uuids,
                       user_uuids, verified_tokens>>
        /\ IF user.id = None
           THEN /\ response' = Fail(404, "User not found")
                /\ UNCHANGED <<users, verification_tokens, db_users, tokens_generated, next_token,
                               replaced_tokens>>
           ELSE resend_send(user, email, email_sent)

resend_verification_email(email, email_sent) ==
    LET user == get_user_by_email(email)
    IN  /\ request' = Req("resend", email, "", None, "")
        /\ UNCHANGED <<database_type, in_flight, now, tenants, email_to_user, db_tenants, tenant_uuids,
                       user_uuids, verified_tokens>>
        /\ IF user.id = None
           THEN /\ response' = Fail(404, "User not found")
                /\ UNCHANGED <<users, verification_tokens, db_users, tokens_generated, next_token,
                               replaced_tokens>>
           ELSE IF user.is_verified
           THEN /\ response' = Fail(400, "Email is already verified")
                /\ UNCHANGED <<users, verification_tokens, db_users, tokens_generated, next_token,
                               replaced_tokens>>
           ELSE resend_send(user, email, email_sent)

\* --------------------------------------------------------- POST /auth/logout
logout ==
    /\ request' = Req("logout", "", "", None, "")
    /\ response' = Resp(200, "Logged out successfully", None, "delete", NoToken, NoMail)
    /\ UNCHANGED <<database_type, in_flight, now, store, tenant_uuids, user_uuids, tokens_generated, next_token,
                   verified_tokens, replaced_tokens>>

\* -------------------------------------------------------------- POST /users/
\* mutant: POST /users/ without the check that the tenant exists
create_user_no_tenant_check(email, tenant_id, password) ==
    LET db_user == Real_get_user_by_email(email)
        user_data == [email |-> email,
                      password_hash |-> get_password_hash(password),
                      tenant_id |-> tenant_id,
                      is_verified |-> TRUE,
                      verification_token |-> None]
    IN  /\ request' = Req("create_user", email, "", None, "")
        /\ UNCHANGED <<database_type, in_flight, now, tenants, users, email_to_user, verification_tokens,
                       db_tenants, tenant_uuids, tokens_generated, next_token,
                       verified_tokens, replaced_tokens>>
        /\ IF db_user.id # None
           THEN /\ response' = Fail(400, "Email already registered")
                /\ UNCHANGED <<db_users, user_uuids>>
           ELSE /\ user_uuids < MaxUsers
                /\ Real_create_user(new_user_id, user_data)
                /\ user_uuids' = user_uuids + 1
                /\ response' = Resp(201, "", new_user_id, "none", NoToken, NoMail)

create_user(email, tenant_id, password) ==
    LET db_tenant == Real_get_tenant(tenant_id)
        db_user == Real_get_user_by_email(email)
        user_data == [email |-> email,
                      password_hash |-> get_password_hash(password),
                      tenant_id |-> tenant_id,
                      is_verified |-> TRUE,
                      verification_token |-> None]
    IN  /\ request' = Req("create_user", email, "", None, "")
        /\ UNCHANGED <<database_type, in_flight, now, tenants, users, email_to_user, verification_tokens,
                       db_tenants, tenant_uuids, tokens_generated, next_token,
                       verified_tokens, replaced_tokens>>
        /\ IF db_tenant.id = None
           THEN /\ response' = Fail(404, "Tenant not found")
                /\ UNCHANGED <<db_users, user_uuids>>
           ELSE IF db_user.id # None
           THEN /\ response' = Fail(400, "Email already registered")
                /\ UNCHANGED <<db_users, user_uuids>>
           ELSE /\ user_uuids < MaxUsers
                /\ Real_create_user(new_user_id, user_data)
                /\ user_uuids' = user_uuids + 1
                /\ response' = Resp(201, "", new_user_id, "none", NoToken, NoMail)

\* -------------------------------------------------- the Current-User Resolver
\* a request to a protected route: the Authorization bearer token and the
\* session_token cookie it carries (NoToken when absent)
AuthReq(op, bearer_token, session_token) ==
    [op |-> op, email |-> "", password |-> "", token |-> None, name |-> "",
     bearer_token |-> bearer_token, session_token |-> session_token]

credentials_exception == Fail(401, "Could not validate credentials")

\* mutant: the resolver reads the session_token cookie only
get_current_user_cookie_only(bearer_token, session_token) ==
    LET token == session_token
        payload == verify_token(token)
        user == get_user(payload.sub)
    IN  IF token = NoToken \/ payload = NoPayload \/ payload.sub = None \/ user.id = None
        THEN credentials_exception
        ELSE Resp(200, "", user.id, "none", NoToken, NoMail)

\* mutant: the resolver trusts the token's subject without looking the user up
get_current_user_trusting(bearer_token, session_token) ==
    LET token == IF bearer_token # NoToken THEN bearer_token ELSE session_token
        payload == verify_token(token)
    IN  IF token = NoToken \/ payload = NoPayload \/ payload.sub = None
        THEN credentials_exception
        ELSE Resp(200, "", payload.sub, "none", NoToken, NoMail)

\* mutant: the resolver prefers the cookie to the bearer token
get_current_user_cookie_first(bearer_token, session_token) ==
    LET token == IF session_token # NoToken THEN session_token ELSE bearer_token
        payload == verify_token(token)
        user == get_user(payload.sub)
    IN  IF token = NoToken \/ payload = NoPayload \/ payload.sub = None \/ user.id = None
        THEN credentials_exception
        ELSE Resp(200, "", user.id, "none", NoToken, NoMail)

\* mutant: the resolver falls back to the cookie when the bearer token fails
get_current_user_fallback(bearer_token, session_token) ==
    LET bearer_ok == /\ bearer_token # NoToken
                     /\ verify_token(bearer_token) # NoPayload
                     /\ verify_token(bearer_token).sub # None
                     /\ get_user(verify_token(bearer_token).sub).id # None
        token == IF bearer_ok THEN bearer_token ELSE session_token
        payload == verify_token(token)
        user == get_user(payload.sub)
    IN  IF token = NoToken \/ payload = NoPayload \/ payload.sub = None \/ user.id = None
        THEN credentials_exception
        ELSE Resp(200, "", user.id, "none", NoToken, NoMail)

\* the outcome of get_current_user: the 401 it raises, or the user it
\* returns (as the 200 response of the route that depends on it)
get_current_user(bearer_token, session_token) ==
    LET token == IF bearer_token # NoToken THEN bearer_token ELSE session_token
        payload == verify_token(token)
        user == get_user(payload.sub)
    IN  IF token = NoToken
        THEN credentials_exception
        ELSE IF payload = NoPayload
        THEN credentials_exception
        ELSE IF payload.sub = None
        THEN credentials_exception
        ELSE IF user.id = None
        THEN credentials_exception
        ELSE Resp(200, "", user.id, "none", NoToken, NoMail)

\* --------------------------------------------------------------- GET /auth/me
get_current_user_info(bearer_token, session_token) ==
    /\ request' = AuthReq("me", bearer_token, session_token)
    /\ response' = get_current_user(bearer_token, session_token)
    /\ UNCHANGED <<database_type, in_flight, now, store, tenant_uuids, user_uuids, tokens_generated,
                   next_token, verified_tokens, replaced_tokens>>

\* ------------------------------------------------- outside the HTTP handlers
\* crud.delete_user: the row is removed from table "users" when it exists
delete_user(user_id) ==
    /\ db_users' = [id \in DOMAIN db_users \ {user_id} |-> db_users[id]]
    /\ request' = NoRequest
    /\ response' = Fail(0, "")
    /\ UNCHANGED <<database_type, in_flight, now, tenants, users, email_to_user, verification_tokens,
                   db_tenants, tenant_uuids, user_uuids, tokens_generated, next_token,
                   verified_tokens, replaced_tokens>>

\* time passes between two requests
tick(instant) ==
    /\ instant > now
    /\ now' = instant
    /\ request' = NoRequest
    /\ response' = Fail(0, "")
    /\ UNCHANGED <<database_type, in_flight, store, tenant_uuids, user_uuids, tokens_generated,
                   next_token, verified_tokens, replaced_tokens>>

\* secrets.token_urlsafe happens to return a value it has returned before
token_urlsafe_repeats(token) ==
    /\ token <= tokens_generated
    /\ token # next_token
    /\ next_token' = token
    /\ request' = NoRequest
    /\ response' = Fail(0, "")
    /\ UNCHANGED <<database_type, in_flight, now, store, tenant_uuids, user_uuids, tokens_generated,
                   verified_tokens, replaced_tokens>>

Next ==
    \/ \E email \in Emails, password \in AccountPasswords, name \in TenantNames,
          email_sent \in BOOLEAN : register(email, password, name, email_sent)
    \/ \E email \in Emails, password \in Passwords : login(email, password)
    \/ \E token \in 1..MaxToken, email_sent \in BOOLEAN : verify_email(token, email_sent)
    \/ \E email \in Emails, email_sent \in BOOLEAN :
          resend_verification_email(email, email_sent)
    \/ logout
    \/ \E email \in Emails, tenant_id \in 1..MaxTenants, password \in AccountPasswords :
          create_user(email, tenant_id, password)

Spec == Init /\ [][Next]_vars

\* ------------------------------------------------ sessions over time: SpecAuth
\* the tokens a request may present: well signed or not, with or without a
\* subject, expiring when a token issued by login at 0 does
PresentedTokens ==
    [sub : 0..MaxUsers, exp : {0 + ACCESS_TOKEN_EXPIRE_MINUTES}, key : Keys]

\* tokens of the server that expire earlier: issued at 0 with the default
\* lifetime, for a user
EarlierTokens ==
    [sub : 1..MaxUsers, exp : {0 + DEFAULT_EXPIRE_MINUTES}, key : {SECRET_KEY}]

Credentials == {NoToken} \cup PresentedTokens \cup EarlierTokens

\* the non-zero lifetimes a token is issued with, and every token they give
TTLs == {1, DEFAULT_EXPIRE_MINUTES, ACCESS_TOKEN_EXPIRE_MINUTES}

SessionTokens ==
    [sub : 0..MaxUsers, exp : {t + d : t \in Instants, d \in TTLs}, key : Keys]

NextAuth ==
    \/ \E email \in Emails, password \in AccountPasswords, name \in TenantNames :
          register(email, password, name, TRUE)
    \/ \E token \in 1..MaxToken : verify_email(token, TRUE)
    \/ \E email \in Emails, password \in AccountPasswords : login(email, password)
    \/ logout
    \/ \E bearer_token \in Credentials, session_token \in Credentials :
          get_current_user_info(bearer_token, session_token)
    \/ \E user_id \in 1..MaxUsers : delete_user(user_id)
    \/ \E instant \in Instants : tick(instant)

SpecAuth == Init /\ [][NextAuth]_vars

\* ------------------------------------------------------------ DatabaseFactory
\* what a call answered: the value it returned, or the error it raised
Returns(value) == [raised |-> "", value |-> value]

Raises(error) == [raised |-> error, value |-> NoUser]

\* An environment value is the sequence of its characters; the variable may
\* also be absent from the environment.
NotSet == [set |-> FALSE, value |-> <<>>]

Set(value) == [set |-> TRUE, value |-> value]

EnvironmentValues ==
    {NotSet, Set(<<>>), Set(<<"m", "o", "c", "k">>), Set(<<"M", "O", "C", "K">>),
     Set(<<"M", "o", "c", "k">>), Set(<<"r", "e", "a", "l">>),
     Set(<<"R", "E", "A", "L">>), Set(<<"s", "q", "l", "i", "t", "e">>)}

\* os.getenv(name, default)
getenv(variable, default) == IF variable.set THEN variable.value ELSE default

\* str.lower(), over the letters of EnvironmentValues
lower_char(c) ==
    CASE c = "M" -> "m" [] c = "O" -> "o" [] c = "C" -> "c" [] c = "K" -> "k"
      [] c = "R" -> "r" [] c = "E" -> "e" [] c = "A" -> "a" [] c = "L" -> "l"
      [] OTHER -> c

lower(string) == [i \in DOMAIN string |-> lower_char(string[i])]

\* mutant: the durable store is built whether or not a session is given
create_database_no_session_check(DATABASE_TYPE, db_session) ==
    LET selected == lower(getenv(DATABASE_TYPE, <<"r", "e", "a", "l">>))
    IN  IF selected = <<"m", "o", "c", "k">> THEN Returns("MockDatabase")
        ELSE IF selected = <<"r", "e", "a", "l">> THEN Returns("RealDatabase")
        ELSE Raises("ValueError: Unknown database type")

\* DatabaseFactory.create_database; db_session is FALSE for None
create_database(DATABASE_TYPE, db_session) ==
    LET selected == lower(getenv(DATABASE_TYPE, <<"r", "e", "a", "l">>))
    IN  IF selected = <<"m", "o", "c", "k">> THEN Returns("MockDatabase")
        ELSE IF selected = <<"r", "e", "a", "l">>
             THEN IF ~db_session
                  THEN Raises("ValueError: db_session is required for real database")
                  ELSE Returns("RealDatabase")
        ELSE Raises("ValueError: Unknown database type")

\* a process started with DATABASE_TYPE asks the factory for its store
get_database(DATABASE_TYPE, db_session) ==
    /\ request' = [op |-> "create_database", DATABASE_TYPE |-> DATABASE_TYPE,
                   db_session |-> db_session]
    /\ response' = create_database(DATABASE_TYPE, db_session)
    /\ UNCHANGED <<database_type, in_flight, now, store, tenant_uuids, user_uuids, tokens_generated,
                   next_token, verified_tokens, replaced_tokens>>

\* --------------------------------------------- the password hasher on its own
\* password is hashed, plain_password is verified against the digest
check_password(password, plain_password) ==
    /\ request' = [op |-> "verify_password", password |-> password,
                   plain_password |-> plain_password]
    /\ response' = Returns(verify_password(plain_password, get_password_hash(password)))
    /\ UNCHANGED <<database_type, in_flight, now, store, tenant_uuids, user_uuids, tokens_generated,
                   next_token, verified_tokens, replaced_tokens>>

\* --------------------------------------- tokens issued over time: SpecToken
\* the durations create_access_token is called with, in minutes: zero, the
\* default, the session's, and durations before and beyond them
Durations ==
    {0 - DEFAULT_EXPIRE_MINUTES, 0, 1, DEFAULT_EXPIRE_MINUTES,
     ACCESS_TOKEN_EXPIRE_MINUTES, ACCESS_TOKEN_EXPIRE_MINUTES + DEFAULT_EXPIRE_MINUTES}

\* a caller issues a token for a subject
issue_token(sub, expires_delta) ==
    /\ request' = [op |-> "create_access_token", sub |-> sub,
                   expires_delta |-> expires_delta]
    /\ response' = [Fail(0, "") EXCEPT !.access_token =
                                          create_access_token(sub, expires_delta)]
    /\ UNCHANGED <<database_type, in_flight, now, store, tenant_uuids, user_uuids,
                   tokens_generated, next_token, verified_tokens, replaced_tokens>>

NextToken ==
    \/ \E sub \in 0..MaxUsers, expires_delta \in Durations : issue_token(sub, expires_delta)
    \/ \E instant \in Instants : tick(instant)

SpecToken == Init /\ [][NextToken]_vars

\* ------------------------------ the storage layer called directly: SpecStorage
\* an exception that reaches the caller of a storage operation
Raised(error) == Fail(0, error)

\* DatabaseInterface.create_user_with_password on the store the factory
\* selects; the relational store rejects a taken e-mail and a tenant_id that
\* is no row of "tenants"
create_user_with_password(email, tenant_id, password) ==
    LET user_data == [email |-> email,
                      password_hash |-> [scheme |-> "", digest |-> ""],
                      tenant_id |-> tenant_id,
                      is_verified |-> FALSE,
                      verification_token |-> None]
    IN  /\ request' = Req("create_user_with_password", email, password, None, "")
        /\ UNCHANGED <<database_type, in_flight, now, tenants, db_tenants, tenant_uuids,
                       tokens_generated, next_token, verified_tokens, replaced_tokens>>
        /\ IF database_type = "mock"
           THEN /\ user_uuids < MaxUsers
                /\ Mock_create_user_with_password(new_user_id, user_data, password)
                /\ user_uuids' = user_uuids + 1
                /\ response' = Resp(0, "", new_user_id, "none", NoToken, NoMail)
                /\ UNCHANGED db_users
           ELSE IF UserInsertOk(user_data) /\ tenant_id \in DOMAIN db_tenants
           THEN /\ user_uuids < MaxUsers
                /\ Real_create_user_with_password(new_user_id, user_data, password)
                /\ user_uuids' = user_uuids + 1
                /\ response' = Resp(0, "", new_user_id, "none", NoToken, NoMail)
                /\ UNCHANGED <<users, email_to_user, verification_tokens>>
           ELSE /\ response' = Raised("IntegrityError")
                /\ UNCHANGED <<users, email_to_user, verification_tokens, db_users,
                               user_uuids>>

NextStorage ==
    \/ \E email \in Emails, password \in AccountPasswords, name \in TenantNames :
          register(email, password, name, TRUE)
    \/ \E token \in 1..MaxToken : verify_email(token, TRUE)
    \/ \E email \in Emails, password \in Passwords : login(email, password)
    \/ \E email \in Emails, tenant_id \in 1..MaxTenants, password \in AccountPasswords :
          create_user_with_password(email, tenant_id, password)
    \/ \E DATABASE_TYPE \in EnvironmentValues, db_session \in BOOLEAN :
          get_database(DATABASE_TYPE, db_session)
    \/ \E password \in Passwords \cup LongPasswords,
          plain_password \in Passwords \cup LongPasswords :
          check_password(password, plain_password)

SpecStorage == Init /\ [][NextStorage]_vars

\* ------------------------------- the two stores side by side: SpecInterchange
\* One call of the DatabaseInterface is given to a MockDatabase and to a
\* RealDatabase at once; the response holds what each of them answered.
\* Both stores hand out the same id for the same call.
Results(mock, real) == [mock |-> mock, real |-> real]

both_create_tenant(name) ==
    /\ tenant_uuids < MaxTenants
    /\ request' = Req("create_tenant", "", "", None, name)
    /\ tenant_uuids' = tenant_uuids + 1
    /\ Mock_create_tenant(new_tenant_id, name)
    /\ IF TenantInsertOk(name)
       THEN /\ Real_create_tenant(new_tenant_id, name)
            /\ response' = Results(Returns([id |-> new_tenant_id, name |-> name]),
                                   Returns([id |-> new_tenant_id, name |-> name]))
       ELSE /\ UNCHANGED db_tenants
            /\ response' = Results(Returns([id |-> new_tenant_id, name |-> name]),
                                   Raises("IntegrityError"))
    /\ UNCHANGED <<database_type, in_flight, now, users, email_to_user, verification_tokens, db_users,
                   user_uuids, tokens_generated, next_token, verified_tokens,
                   replaced_tokens>>

\* create_user for a tenant both stores hold
both_create_user(email, tenant_id, verification_token) ==
    LET user_data == [email |-> email, password_hash |-> get_password_hash("pw1"),
                      tenant_id |-> tenant_id, is_verified |-> FALSE,
                      verification_token |-> verification_token]
    IN  /\ user_uuids < MaxUsers
        /\ tenant_id \in DOMAIN tenants \cap DOMAIN db_tenants
        /\ request' = Req("create_user", email, "", verification_token, "")
        /\ user_uuids' = user_uuids + 1
        /\ Mock_create_user(new_user_id, user_data)
        /\ IF UserInsertOk(user_data)
           THEN /\ Real_create_user(new_user_id, user_data)
                /\ response' = Results(Returns(NewUser(new_user_id, user_data)),
                                       Returns(NewUser(new_user_id, user_data)))
           ELSE /\ UNCHANGED db_users
                /\ response' = Results(Returns(NewUser(new_user_id, user_data)),
                                       Raises("IntegrityError"))
        /\ UNCHANGED <<database_type, in_flight, now, tenants, db_tenants, tenant_uuids,
                       tokens_generated, next_token, verified_tokens, replaced_tokens>>

both_update_user_verification(user_id, is_verified, verification_token) ==
    /\ request' = Req("update_user_verification", "", "", verification_token, "")
    /\ Mock_update_user_verification(user_id, is_verified, verification_token)
    /\ IF user_id \in DOMAIN db_users /\ verification_token # None
          /\ ~UserUpdateOk(user_id, verification_token)
       THEN /\ UNCHANGED db_users
            /\ response' = Results(Returns(Mock_get_user(user_id)'),
                                   Raises("IntegrityError"))
       ELSE /\ Real_update_user_verification(user_id, is_verified, verification_token)
            /\ response' = Results(Returns(Mock_get_user(user_id)'),
                                   Returns(Real_get_user(user_id)'))
    /\ UNCHANGED <<database_type, in_flight, now, tenants, email_to_user, db_tenants, tenant_uuids,
                   user_uuids, tokens_generated, next_token, verified_tokens,
                   replaced_tokens>>

both_get_user_by_email(email) ==
    /\ request' = Req("get_user_by_email", email, "", None, "")
    /\ response' = Results(Returns(Mock_get_user_by_email(email)),
                           Returns(Real_get_user_by_email(email)))
    /\ UNCHANGED <<database_type, in_flight, now, store, tenant_uuids, user_uuids, tokens_generated,
                   next_token, verified_tokens, replaced_tokens>>

both_get_user_by_verification_token(token) ==
    /\ request' = Req("get_user_by_verification_token", "", "", token, "")
    /\ response' = Results(Returns(Mock_get_user_by_verification_token(token)),
                           Returns(Real_get_user_by_verification_token(token)))
    /\ UNCHANGED <<database_type, in_flight, now, store, tenant_uuids, user_uuids, tokens_generated,
                   next_token, verified_tokens, replaced_tokens>>

\* the callers' shapes: a user is created for the tenant created last; Verify
\* updates with (id, True), Resend with (id, False, token)
NextInterchange ==
    \/ \E name \in TenantNames : both_create_tenant(name)
    \/ \E email \in Emails, token \in 1..MaxToken :
          both_create_user(email, tenant_uuids, token)
    \/ \E user_id \in 1..MaxUsers : both_update_user_verification(user_id, TRUE, None)
    \/ \E user_id \in 1..MaxUsers, token \in 1..MaxToken :
          both_update_user_verification(user_id, FALSE, token)
    \/ \E email \in Emails : both_get_user_by_email(email)
    \/ \E token \in 1..MaxToken : both_get_user_by_verification_token(token)

SpecInterchange == Init /\ [][NextInterchange]_vars

\* ------------------------------- requests on several threads: SpecConcurrent
\* register and resend_verification_email taken one storage call at a time.
\* A thread holds what its handler has read so far (in_flight) while other
\* threads run.  verify_email stays one step: what it writes depends on
\* nothing it read but the user's id.

\* register, up to its e-mail check
register_get_user_by_email(slot, email, password, tenant_name) ==
    /\ in_flight[slot] = Idle
    /\ IF get_user_by_email(email).id # None
       THEN /\ request' = Req("register", email, "", None, tenant_name)
            /\ response' = Fail(400, "Email already registered")
            /\ UNCHANGED in_flight
       ELSE /\ in_flight' = [in_flight EXCEPT ![slot] =
                                [Idle EXCEPT !.op = "register", !.at = "create_tenant",
                                             !.email = email, !.password = password,
                                             !.tenant_name = tenant_name]]
            /\ UNCHANGED <<request, response>>
    /\ UNCHANGED <<database_type, now, store, tenant_uuids, user_uuids, tokens_generated,
                   next_token, verified_tokens, replaced_tokens>>

\* register: database.create_tenant
register_create_tenant(slot) ==
    LET local == in_flight[slot]
    IN  /\ local.at = "create_tenant"
        /\ IF database_type = "real" /\ ~TenantInsertOk(local.tenant_name)
           THEN /\ request' = Req("register", local.email, "", None, local.tenant_name)
                /\ response' = Fail(500, "Internal Server Error")
                /\ in_flight' = [in_flight EXCEPT ![slot] = Idle]
                /\ UNCHANGED <<tenants, db_tenants, tenant_uuids>>
           ELSE /\ tenant_uuids < MaxTenants
                /\ tenant_uuids' = tenant_uuids + 1
                /\ IF database_type = "mock"
                   THEN /\ Mock_create_tenant(new_tenant_id, local.tenant_name)
                        /\ UNCHANGED db_tenants
                   ELSE /\ Real_create_tenant(new_tenant_id, local.tenant_name)
                        /\ UNCHANGED tenants
                /\ in_flight' = [in_flight EXCEPT ![slot] =
                                    [local EXCEPT !.at = "create_user",
                                                  !.tenant_id = new_tenant_id]]
                /\ UNCHANGED <<request, response>>
        /\ UNCHANGED <<database_type, now, users, email_to_user, verification_tokens,
                       db_users, user_uuids, tokens_generated, next_token, verified_tokens,
                       replaced_tokens>>

\* register: database.create_user, the mail and the response
register_create_user(slot) ==
    LET local == in_flight[slot]
        user_id == new_user_id
        verification_token == generate_verification_token
        user_data == [email |-> local.email,
                      password_hash |-> get_password_hash(local.password),
                      tenant_id |-> local.tenant_id,
                      is_verified |-> FALSE,
                      verification_token |-> verification_token]
        created == Resp(201, UserRegistered, user_id, "none", NoToken,
                        {Mail("verification", local.email, verification_token, TRUE)})
    IN  /\ local.at = "create_user"
        /\ user_uuids < MaxUsers
        /\ tokens_generated < MaxToken
        /\ tokens_generated' = tokens_generated + 1
        /\ next_token' = tokens_generated + 2
        /\ request' = Req("register", local.email, "", None, local.tenant_name)
        /\ in_flight' = [in_flight EXCEPT ![slot] = Idle]
        /\ IF database_type = "mock"
           THEN /\ Mock_create_user(user_id, user_data)
                /\ user_uuids' = user_uuids + 1
                /\ UNCHANGED db_users
                /\ response' = created
           ELSE /\ UNCHANGED <<users, email_to_user, verification_tokens>>
                /\ IF UserInsertOk(user_data)
                   THEN /\ Real_create_user(user_id, user_data)
                        /\ user_uuids' = user_uuids + 1
                        /\ response' = created
                   ELSE /\ UNCHANGED <<db_users, user_uuids>>
                        /\ response' = Fail(500, "Internal Server Error")
        /\ UNCHANGED <<database_type, now, tenants, db_tenants, tenant_uuids,
                       verified_tokens, replaced_tokens>>

\* resend_verification_email, up to its two checks
resend_get_user_by_email(slot, email) ==
    LET user == get_user_by_email(email)
    IN  /\ in_flight[slot] = Idle
        /\ IF user.id = None
           THEN /\ request' = Req("resend", email, "", None, "")
                /\ response' = Fail(404, "User not found")
                /\ UNCHANGED in_flight
           ELSE IF user.is_verified
           THEN /\ request' = Req("resend", email, "", None, "")
                /\ response' = Fail(400, "Email is already verified")
                /\ UNCHANGED in_flight
           ELSE /\ in_flight' = [in_flight EXCEPT ![slot] =
                                    [Idle EXCEPT !.op = "resend",
                                                 !.at = "update_user_verification",
                                                 !.email = email, !.user = user]]
                /\ UNCHANGED <<request, response>>
        /\ UNCHANGED <<database_type, now, store, tenant_uuids, user_uuids,
                       tokens_generated, next_token, verified_tokens, replaced_tokens>>

\* resend_verification_email: the new token, the update, the mail, the response
resend_update_user_verification(slot) ==
    LET local == in_flight[slot]
    IN  /\ local.at = "update_user_verification"
        /\ request' = Req("resend", local.email, "", None, "")
        /\ in_flight' = [in_flight EXCEPT ![slot] = Idle]
        /\ resend_send(local.user, local.email, TRUE)
        /\ UNCHANGED <<database_type, now, tenants, email_to_user, db_tenants,
                       tenant_uuids, user_uuids, verified_tokens>>

NextConcurrent ==
    \/ \E slot \in Slots, email \in Emails, password \in AccountPasswords,
          name \in TenantNames : register_get_user_by_email(slot, email, password, name)
    \/ \E slot \in Slots : register_create_tenant(slot)
    \/ \E slot \in Slots : register_create_user(slot)
    \/ \E slot \in Slots, email \in Emails : resend_get_user_by_email(slot, email)
    \/ \E slot \in Slots : resend_update_user_verification(slot)
    \/ \E token \in 1..MaxToken : verify_email(token, TRUE)

SpecConcurrent == Init /\ [][NextConcurrent]_vars

\* ------------------------- the store resolved for each request: SpecFactory
\* get_database asks DatabaseFactory.create_database for the store of every
\* request.  With DATABASE_TYPE = "real" that is a RealDatabase over the one
\* set of tables.  With "mock" it is MockDatabase(): a new instance whose
\* dictionaries are empty, which nothing refers to once the request has been
\* answered.  The in-memory variables hold what the instance of the next
\* request holds when it is handed over, which is nothing.
factory_register(email, password, tenant_name, email_sent) ==
    IF database_type = "real"
    THEN register(email, password, tenant_name, email_sent)
    ELSE LET existing_user == get_user_by_email(email)
             verification_token == generate_verification_token
         IN  /\ request' = Req("register", email, "", None, tenant_name)
             /\ IF existing_user.id # None
                THEN /\ response' = Fail(400, "Email already registered")
                     /\ UNCHANGED <<tenant_uuids, user_uuids, tokens_generated,
                                    next_token>>
                ELSE \* create_tenant and create_user write to the request's own
                     \* instance, which is dropped with the request
                     /\ tenant_uuids < MaxTenants
                     /\ user_uuids < MaxUsers
                     /\ tokens_generated < MaxToken
                     /\ tenant_uuids' = tenant_uuids + 1
                     /\ user_uuids' = user_uuids + 1
                     /\ tokens_generated' = tokens_generated + 1
                     /\ next_token' = tokens_generated + 2
                     /\ response' = Resp(201, UserRegistered, new_user_id, "none", NoToken,
                                         {Mail("verification", email, verification_token,
                                               email_sent)})
             /\ UNCHANGED <<database_type, in_flight, now, store, verified_tokens,
                            replaced_tokens>>

NextFactory ==
    \/ \E email \in Emails, password \in AccountPasswords, name \in TenantNames,
          email_sent \in BOOLEAN : factory_register(email, password, name, email_sent)
    \/ \E email \in Emails, password \in Passwords : login(email, password)
    \/ \E token \in 1..MaxToken, email_sent \in BOOLEAN : verify_email(token, email_sent)

SpecFactory == Init /\ [][NextFactory]_vars

\* ------------------------------- repeating verification tokens: SpecCollide
NextCollide ==
    \/ \E email \in Emails, password \in AccountPasswords, name \in TenantNames :
          register(email, password, name, TRUE)
    \/ \E token \in 1..MaxToken : verify_email(token, TRUE)
    \/ \E email \in Emails : resend_verification_email(email, TRUE)
    \/ \E token \in 1..MaxToken : token_urlsafe_repeats(token)

SpecCollide == Init /\ [][NextCollide]_vars

\* ===================================================================== claims
MockUsers == {users[id] : id \in DOMAIN users}

DbUsers == {db_users[id] : id \in DOMAIN db_users}

StoredUsers == MockUsers \cup DbUsers

\* C1: every stored user with is_verified = true has verification_token = null
\* (the claim as stated; verify_email passes None, which both stores take
\* as "leave the token as it is")
C1_VerifiedImpliesNoToken ==
    \A u \in StoredUsers : u.is_verified => u.verification_token = None

\* C2: a verification token is single-use: a Verify request with a token that
\* an earlier Verify request succeeded with is answered 400 (the claim as stated)
C2_TokenSingleUse ==
    [][(request'.op = "verify" /\ request'.token \in verified_tokens)
          => response'.status = 400]_vars

\* C3: after a successful Resend the token stored before it is invalidated: a
\* Verify request with the old token is answered 400 (the claim as stated)
C3_OldTokenInvalidated ==
    (request.op = "verify" /\ request.token \in replaced_tokens)
        => response.status = 400

\* C4: for a stored user that is not verified, Login with the correct password
\* is answered 401 "Email not verified" with no cookie, and the Login request
\* itself is answered that way; once a Verify request with the user's current
\* token has succeeded, Login with the same credentials is answered 200 and
\* sets the session_token cookie for that user
C4_LoginOnlyAfterVerify ==
    /\ [](request.op = "login"
            => response = login_response(request.email, request.password))
    /\ [][\A email \in Emails, password \in Passwords :
            LET user == get_user_by_email(email)
                before == login_response(email, password)
                after == login_response(email, password)'
            IN  (/\ user.id # None
                 /\ ~user.is_verified
                 /\ verify_password(password, user.password_hash))
                => /\ before.status = 401
                   /\ before.detail = EmailNotVerified
                   /\ before.cookie_op = "none"
                   /\ before.access_token = NoToken
                   /\ (/\ request'.op = "verify"
                       /\ request'.token = user.verification_token
                       /\ response'.status = 200)
                      => /\ after.status = 200
                         /\ after.cookie_op = "set"
                         /\ after.access_token.sub = user.id]_vars

\* C4 witness: a Login answered 200 with the cookie set, for a self-registered
\* user whose token a Verify request succeeded with
C4_Witness ==
    /\ request.op = "login"
    /\ response.status = 200
    /\ response.cookie_op = "set"
    /\ get_user(response.user_id).verification_token \in verified_tokens

\* C5: Register with an e-mail a stored user already has is answered 400
\* "Email already registered" and changes neither store (no user, no tenant)
C5_DuplicateRegisterRejected ==
    [][(request'.op = "register" /\ get_user_by_email(request'.email).id # None)
          => /\ response'.status = 400
             /\ response'.detail = "Email already registered"
             /\ store' = store
             /\ tenant_uuids' = tenant_uuids
             /\ user_uuids' = user_uuids]_vars

\* C5 witness: a Register request rejected as a duplicate
C5_Witness ==
    /\ request.op = "register"
    /\ response.status = 400
    /\ get_user_by_email(request.email).id # None

\* C6: no two user records of a store have the same e-mail
C6_EmailUnique ==
    /\ \A i, j \in DOMAIN users : i # j => users[i].email # users[j].email
    /\ \A i, j \in DOMAIN db_users : i # j => db_users[i].email # db_users[j].email

\* C6 witness: a store holding a self-registered and an administratively
\* created user, and the in-memory store holding two users
C6_Witness ==
    \/ /\ Cardinality(DOMAIN db_users) = 2
       /\ \E u \in DbUsers : u.verification_token = None
       /\ \E u \in DbUsers : u.verification_token # None
    \/ Cardinality(DOMAIN users) = 2

\* C7: a Login request is answered 200 with a token exactly when the e-mail is
\* known, the password matches the stored hash and the user is verified; in
\* every other case it is answered 401 and issues no token
C7_LoginChecks ==
    request.op = "login" =>
        LET user == get_user_by_email(request.email)
        IN  IF /\ user.id # None
               /\ verify_password(request.password, user.password_hash)
               /\ user.is_verified
            THEN /\ response.status = 200
                 /\ response.cookie_op = "set"
                 /\ response.access_token.sub = user.id
            ELSE /\ response.status = 401
                 /\ response.cookie_op = "none"
                 /\ response.access_token = NoToken

\* C7 witness: a verified user's Login refused for a wrong password
C7_Witness ==
    /\ request.op = "login"
    /\ response.status = 401
    /\ get_user_by_email(request.email).is_verified
    /\ ~verify_password(request.password, get_user_by_email(request.email).password_hash)

\* C8: a Resend request answered 200 leaves the user with a token different
\* from the one stored before, and with is_verified = false
C8_ResendReplacesToken ==
    [][\A email \in Emails :
          (request'.op = "resend" /\ request'.email = email /\ response'.status = 200)
          => \E user_id \in 1..MaxUsers :
                /\ user_id = get_user_by_email(email).id
                /\ get_user(user_id)'.verification_token # None
                /\ get_user(user_id)'.verification_token
                      # get_user(user_id).verification_token
                /\ get_user_by_email(email)' = get_user(user_id)'
                /\ ~get_user(user_id)'.is_verified]_vars

\* C8 witness: a second successful Resend in a row for the same user
C8_Witness ==
    /\ request.op = "resend"
    /\ response.status = 200
    /\ Cardinality(replaced_tokens) >= 2
    /\ get_user_by_email(request.email).verification_token = tokens_generated

\* C9: Resend for an unknown e-mail is answered 404 "User not found", for a
\* verified user 400 "Email is already verified"; either way no store changes,
\* no token is generated and no mail is sent
C9_ResendRejected ==
    [][request'.op = "resend"
          => LET user == get_user_by_email(request'.email)
             IN  /\ user.id = None
                    => /\ response'.status = 404
                       /\ response'.detail = "User not found"
                 /\ (user.id # None /\ user.is_verified)
                    => /\ response'.status = 400
                       /\ response'.detail = "Email is already verified"
                 /\ (user.id = None \/ user.is_verified)
                    => /\ store' = store
                       /\ tokens_generated' = tokens_generated
                       /\ response'.mails = NoMail]_vars

\* C9 witness: a Resend request refused because the user is verified
C9_Witness ==
    /\ request.op = "resend"
    /\ response.status = 400
    /\ get_user_by_email(request.email).is_verified

\* C10: when the transport fails during Resend the request is answered 500,
\* the user's stored token is the newly generated one (the one of the failed
\* mail) and resolves to the user, and a Verify request with it that follows
\* is answered 200 and verifies the user
C10_ResendFailureKeepsToken ==
    /\ []((request.op = "resend" /\ response.mails # NoMail)
            => \A mail \in response.mails :
                  LET user == get_user_by_email(request.email)
                  IN  /\ ~mail.sent <=> response.status = 500
                      /\ user.id # None
                      /\ user.verification_token = mail.token
                      /\ get_user_by_verification_token(mail.token).id = user.id)
    /\ [][\A email \in Emails :
             (/\ request.op = "resend"
              /\ request.email = email
              /\ response.status = 500
              /\ request'.op = "verify"
              /\ \E mail \in response.mails : mail.token = request'.token)
             => /\ response'.status = 200
                /\ get_user_by_email(email)'.is_verified]_vars

\* C10 witness: a Resend answered 500 with the new token stored
C10_Witness ==
    /\ request.op = "resend"
    /\ response.status = 500
    /\ \E mail \in response.mails :
          /\ ~mail.sent
          /\ get_user_by_email(request.email).verification_token = mail.token
          /\ mail.token \notin replaced_tokens

\* C11: Logout invalidates nothing on the server: a Logout request changes the
\* resolver's answer for no token; the token a successful Login has just
\* issued still resolves to that user after a Logout that follows it; and in
\* every state, so also after any Logout, a token signed by the server whose
\* expiry has not passed and whose subject is a stored user is accepted as
\* bearer token and resolves to that user
C11_LogoutKeepsTokenValid ==
    /\ [](\A tok \in PresentedTokens :
            (/\ tok.key = SECRET_KEY
             /\ tok.sub # None
             /\ now <= tok.exp
             /\ get_user(tok.sub).id # None)
            => /\ get_current_user(tok, NoToken).status = 200
               /\ get_current_user(tok, NoToken).user_id = tok.sub)
    /\ [][request'.op = "logout"
            => /\ \A tok \in PresentedTokens :
                     get_current_user(tok, NoToken)' = get_current_user(tok, NoToken)
               /\ (request.op = "login" /\ response.status = 200)
                  => \A tok \in PresentedTokens :
                        tok = response.access_token
                        => /\ get_current_user(tok, NoToken)'.status = 200
                           /\ get_current_user(tok, NoToken)'.user_id
                                 = response.user_id]_vars

\* C11 witness: a Logout has just been answered, at the last instant before a
\* server-signed token expires, and the token is still accepted as bearer
C11_Witness ==
    /\ request.op = "logout"
    /\ response.cookie_op = "delete"
    /\ \E tok \in PresentedTokens :
          /\ tok.exp = now
          /\ get_current_user(tok, NoToken).status = 200
          /\ get_current_user(tok, NoToken).user_id = tok.sub

C13_ResolverRejectsUniformly ==
    request.op = "me" =>
        LET token == IF request.bearer_token # NoToken
                     THEN request.bearer_token ELSE request.session_token
        IN  (\/ request.bearer_token = NoToken /\ request.session_token = NoToken
             \/ token.key # SECRET_KEY
             \/ token.exp < now
             \/ token.sub = None
             \/ get_user(token.sub).id = None)
            => /\ response = credentials_exception
               /\ response.status = 401
               /\ response.detail = "Could not validate credentials"
               /\ response.user_id = None

\* C13 witness: an unexpired token naming a stored user, but signed with a
\* foreign key, is answered 401
C13_Witness ==
    /\ request.op = "me"
    /\ request.bearer_token.key \in Keys \ {SECRET_KEY}
    /\ ~(request.bearer_token.exp < now)
    /\ get_user(request.bearer_token.sub).id # None
    /\ response = credentials_exception

\* C14: a token signed by the server and not expired, whose subject is a user
\* that was created and has since been deleted, is rejected: the resolver
\* answers it with 401 and so does a /auth/me request that carries it; and the
\* step that deletes the user turns an accepted token into a rejected one
\* (the subject is looked up again on every request)
C14_DeletedUserRejected ==
    /\ [](\A tok \in PresentedTokens :
            (/\ tok.key = SECRET_KEY
             /\ ~(tok.exp < now)
             /\ tok.sub \in 1..user_uuids
             /\ get_user(tok.sub).id = None)
            => /\ get_current_user(tok, NoToken) = credentials_exception
               /\ (request.op = "me" /\ request.bearer_token = tok)
                  => response.status = 401)
    /\ [][\A tok \in PresentedTokens :
            (/\ get_current_user(tok, NoToken).status = 200
             /\ now' = now
             /\ get_user(tok.sub)'.id = None)
            => get_current_user(tok, NoToken)'.status = 401]_vars

\* C14 witness: /auth/me with an unexpired server-signed token of a deleted
\* user is answered 401
C14_Witness ==
    /\ request.op = "me"
    /\ request.bearer_token.key = SECRET_KEY
    /\ ~(request.bearer_token.exp < now)
    /\ request.bearer_token.sub \in 1..user_uuids
    /\ get_user(request.bearer_token.sub).id = None
    /\ response.status = 401

\* C15: a /auth/me request that carries both a bearer token and a
\* session_token cookie is answered as the same request without the cookie
\* is: when it returns a user, that user is the subject of the bearer token,
\* whatever the cookie's subject
C15_BearerPreferred ==
    (/\ request.op = "me"
     /\ request.bearer_token # NoToken
     /\ request.session_token # NoToken)
    => /\ response = get_current_user(request.bearer_token, NoToken)
       /\ response.status = 200 => response.user_id = request.bearer_token.sub

\* C15 witness: bearer token and cookie are valid tokens of two different
\* stored users, and the user returned is the bearer token's
C15_Witness ==
    /\ request.op = "me"
    /\ response.status = 200
    /\ get_current_user(NoToken, request.session_token).status = 200
    /\ request.session_token.sub # request.bearer_token.sub
    /\ response.user_id = request.bearer_token.sub
    /\ response.user_id # get_current_user(NoToken, request.session_token).user_id

\* C16: a Login answered 200 issues a token signed by the server whose subject
\* is the id of the stored user with the submitted e-mail and whose expiry is
\* 30 minutes after the instant of issue, not the default 15, and sets it as
\* cookie with max-age 1800 seconds, the token's lifetime in seconds
C16_LoginToken ==
    (request.op = "login" /\ response.status = 200)
    => /\ get_user_by_email(request.email).id # None
       /\ response.access_token.sub = get_user_by_email(request.email).id
       /\ response.access_token.key = SECRET_KEY
       /\ response.access_token.exp = now + 30
       /\ response.access_token.exp # now + DEFAULT_EXPIRE_MINUTES
       /\ response.cookie_op = "set"
       /\ response.max_age = 1800
       /\ response.max_age = 60 * (response.access_token.exp - now)

\* C16 witness: a successful Login at a later instant than 0
C16_Witness ==
    /\ request.op = "login"
    /\ response.status = 200
    /\ now > 0
    /\ response.access_token.exp > ACCESS_TOKEN_EXPIRE_MINUTES
    /\ response.user_id = response.access_token.sub

\* C17: a Verify request with a token that no stored user holds (no user
\* record has it as its verification_token) is answered 400 "Invalid or
\* expired verification token", leaves every store as it was and sends no
\* mail (the claim as stated; the in-memory store resolves the token through
\* its index, which still holds the tokens a Resend replaced)
C17_VerifyUnknownToken ==
    [][(request'.op = "verify"
        /\ \A u \in StoredUsers : u.verification_token # request'.token)
          => /\ response'.status = 400
             /\ response'.detail = "Invalid or expired verification token"
             /\ store' = store
             /\ response'.mails = NoMail]_vars

\* C18: the in-memory store's token index agrees with the user records: every
\* entry token -> user id of verification_tokens names a stored user whose
\* current verification_token is that token (the claim as stated;
\* update_user_verification adds the new entry and leaves the old one)
C18_TokenIndexConsistent ==
    \A token \in DOMAIN verification_tokens :
        /\ verification_tokens[token] \in DOMAIN users
        /\ users[verification_tokens[token]].verification_token = token

\* C19: when the generated verification token is one another user holds, the
\* flow generates again instead of overwriting or failing: no two users of a
\* store hold the same token, the token on every user's record resolves to
\* that user, a Register of a new e-mail (with an unused tenant name) is
\* answered 201 and a Resend for an unverified user stores and mails a token
\* that resolves to that user (the claim as stated; neither flow looks at the
\* token it generated)
C19_TokenCollisionRetried ==
    /\ [](\A i, j \in DOMAIN users :
            (i # j /\ users[i].verification_token # None)
            => users[i].verification_token # users[j].verification_token)
    /\ [](\A i, j \in DOMAIN db_users :
            (i # j /\ db_users[i].verification_token # None)
            => db_users[i].verification_token # db_users[j].verification_token)
    /\ [](\A i \in DOMAIN users :
            (database_type = "mock" /\ users[i].verification_token # None)
            => get_user_by_verification_token(users[i].verification_token).id = i)
    /\ [](\A i \in DOMAIN db_users :
            (database_type = "real" /\ db_users[i].verification_token # None)
            => get_user_by_verification_token(db_users[i].verification_token).id = i)
    /\ [][(request'.op = "register"
            /\ get_user_by_email(request'.email).id = None
            /\ TenantInsertOk(request'.name))
              => response'.status = 201]_vars
    /\ [][(request'.op = "resend"
            /\ get_user_by_email(request'.email).id # None
            /\ ~get_user_by_email(request'.email).is_verified)
              => \E mail \in response'.mails :
                    get_user_by_verification_token(mail.token)'.email = mail.to]_vars

\* C20: a Register request with an e-mail no stored user has is answered 201
\* and creates a new tenant with the requested name and a user owned by it,
\* also when a tenant with that name is already stored, on both stores (the
\* claim as stated; the relational store rejects a second tenant of a name)
C20_RegisterCreatesTenant ==
    [][\A email \in Emails :
          (/\ request'.op = "register"
           /\ request'.email = email
           /\ get_user_by_email(email).id = None)
          => /\ response'.status = 201
             /\ \E tenant_id \in 1..MaxTenants :
                   /\ get_tenant(tenant_id).id = None
                   /\ get_tenant(tenant_id)'.name = request'.name
                   /\ get_user_by_email(email)'.tenant_id = tenant_id]_vars

\* C21: in every state reached through Register, administrative user
\* creation, Verify and Resend, the tenant_id of each stored user is the id
\* of exactly one tenant stored in the same store
C21_UserHasOneTenant ==
    /\ \A i \in DOMAIN users :
          Cardinality({t \in DOMAIN tenants : tenants[t].id = users[i].tenant_id}) = 1
    /\ \A i \in DOMAIN db_users :
          Cardinality({t \in DOMAIN db_tenants :
                          db_tenants[t].id = db_users[i].tenant_id}) = 1

\* C21 witness: a tenant owning two users, one self-registered and one
\* created administratively, after a Verify and a Resend were answered
C21_Witness ==
    /\ \E i, j \in DOMAIN db_users :
          /\ i # j
          /\ db_users[i].tenant_id = db_users[j].tenant_id
          /\ db_users[i].verification_token # None
          /\ db_users[j].verification_token = None
    /\ verified_tokens # {}
    /\ tokens_generated > 1

\* C22: the two writes of Register are not atomic: when the user insert
\* fails after the tenant insert was committed, the request is answered 500,
\* the new tenant stays stored and owns no user, and no user with the
\* submitted e-mail is stored
C22_OrphanTenant ==
    [][\A email \in Emails :
          (/\ request'.op = "register"
           /\ request'.email = email
           /\ get_user_by_email(email).id = None
           /\ TenantInsertOk(request'.name)
           /\ database_type = "real"
           /\ get_user_by_verification_token(generate_verification_token).id # None)
          => /\ response'.status = 500
             /\ get_user_by_email(email)'.id = None
             /\ db_users' = db_users
             /\ \E tenant_id \in 1..MaxTenants :
                   /\ tenant_id \notin DOMAIN db_tenants
                   /\ tenant_id \in DOMAIN db_tenants'
                   /\ db_tenants'[tenant_id].name = request'.name
                   /\ \A i \in DOMAIN db_users' :
                         db_users'[i].tenant_id # tenant_id]_vars

\* C22 witness: a Register answered 500 that left a tenant of the requested
\* name owning no user, and no user with the submitted e-mail
C22_Witness ==
    /\ request.op = "register"
    /\ response.status = 500
    /\ get_user_by_email(request.email).id = None
    /\ \E t \in DOMAIN db_tenants :
          /\ db_tenants[t].name = request.name
          /\ \A i \in DOMAIN db_users : db_users[i].tenant_id # t

\* C23: a Register answered 201 stores the user of the submitted e-mail with
\* is_verified = false and a verification token that is not null; a
\* create_user_with_password call that stores a user stores it with
\* is_verified = true and a password hash made from the given password, on
\* the in-memory store (the simulated "hashed_" digest) as on the relational
\* one (the bcrypt hash)
C23_CreatedUserState ==
    [][\A email \in Emails, password \in AccountPasswords :
          /\ (/\ request'.op = "register"
              /\ request'.email = email
              /\ response'.status = 201)
             => \E user_id \in 1..MaxUsers :
                   /\ user_id = response'.user_id
                   /\ get_user(user_id).id = None
                   /\ get_user(user_id)'.email = email
                   /\ ~get_user(user_id)'.is_verified
                   /\ get_user(user_id)'.verification_token # None
          /\ (/\ request'.op = "create_user_with_password"
              /\ request'.email = email
              /\ request'.password = password
              /\ response'.user_id # None)
             => \E user_id \in 1..MaxUsers :
                   /\ user_id = response'.user_id
                   /\ get_user(user_id).id = None
                   /\ get_user(user_id)'.email = email
                   /\ get_user(user_id)'.is_verified
                   /\ get_user(user_id)'.password_hash.digest = password
                   /\ get_user(user_id)'.password_hash.scheme
                         = (IF database_type = "mock" THEN "hashed_" ELSE "bcrypt")]_vars

\* C23 witness: a store holding a self-registered user, still pending, and a
\* user created by create_user_with_password, the call just answered
C23_Witness ==
    /\ request.op = "create_user_with_password"
    /\ response.user_id # None
    /\ get_user(response.user_id).is_verified
    /\ \E token \in 1..MaxToken :
          /\ get_user_by_verification_token(token).id # None
          /\ ~get_user_by_verification_token(token).is_verified

\* C24: a Login for a user whose stored password_hash is not in a valid hash
\* format (the in-memory store's 'hashed_<password>') ends in 401: the
\* comparison of the password answers false and raises nothing.
C24_MalformedDigestRejected ==
    (/\ request.op = "login"
     /\ get_user_by_email(request.email).id # None
     /\ get_user_by_email(request.email).password_hash.scheme # "bcrypt")
    => response.status = 401

\* C25: the two stores are interchangeable for user operations: every
\* create_user, update_user_verification, get_user_by_email and
\* get_user_by_verification_token call, after any sequence of such calls, is
\* answered alike by the in-memory store and by the relational store.
C25_StoresInterchangeable ==
    request.op \in {"create_user", "update_user_verification", "get_user_by_email",
                    "get_user_by_verification_token"}
    => response.mock = response.real

\* C26 as stated: create_database returns the in-memory store when
\* DATABASE_TYPE is 'mock', the durable store when it is 'real' or absent and
\* a session is given, and raises for 'real' without a session and for any
\* other value.
C26_FactoryByLiteralType ==
    request.op = "create_database" =>
        LET type == getenv(request.DATABASE_TYPE, <<"r", "e", "a", "l">>)
        IN  /\ type = <<"m", "o", "c", "k">> => response = Returns("MockDatabase")
            /\ (type = <<"r", "e", "a", "l">> /\ request.db_session)
               => response = Returns("RealDatabase")
            /\ (type = <<"r", "e", "a", "l">> /\ ~request.db_session)
               => response.raised # ""
            /\ type \notin {<<"m", "o", "c", "k">>, <<"r", "e", "a", "l">>}
               => response.raised # ""

\* C26: create_database compares DATABASE_TYPE without regard to case:
\* it returns the in-memory store when the lowercased value is 'mock', the
\* durable store when it is 'real' (the default when absent) and a session is
\* given, and raises for 'real' without a session and for any other value,
\* the empty string included.
C26_FactoryByType ==
    request.op = "create_database" =>
        LET type == lower(getenv(request.DATABASE_TYPE, <<"r", "e", "a", "l">>))
        IN  /\ type = <<"m", "o", "c", "k">> => response = Returns("MockDatabase")
            /\ (type = <<"r", "e", "a", "l">> /\ request.db_session)
               => response = Returns("RealDatabase")
            /\ (type = <<"r", "e", "a", "l">> /\ ~request.db_session)
               => response.raised # ""
            /\ type \notin {<<"m", "o", "c", "k">>, <<"r", "e", "a", "l">>}
               => response.raised # ""

\* C26 witness: an upper-case 'MOCK' was answered with the in-memory store
C26_Witness ==
    /\ request.op = "create_database"
    /\ request.DATABASE_TYPE = Set(<<"M", "O", "C", "K">>)
    /\ response = Returns("MockDatabase")

\* C27: for all passwords P and P' with P' # P, verify_password(P,
\* get_password_hash(P)) is true and verify_password(P', get_password_hash(P))
\* is false.
C27_VerifyIffSamePassword ==
    request.op = "verify_password" =>
        response = Returns(request.plain_password = request.password)

\* C28: under any interleaving of Verify and Resend requests for one user, a
\* user who is verified is never afterwards unverified: the state of a user
\* moves from pending to verified and never back.
C28_VerifiedStaysVerified ==
    [][\A user_id \in 1..MaxUsers :
          get_user(user_id).is_verified => get_user(user_id)'.is_verified]_vars

C30_CurrentTokenResolves ==
    /\ \A user \in StoredUsers :
          (~user.is_verified /\ user.verification_token # None)
          => get_user_by_verification_token(user.verification_token) = user
    /\ \A user \in StoredUsers : ~user.is_verified => user.verification_token # None

\* C31: Login checks the password before the verification flag: it answers
\* "Email not verified" only when the password matches the stored hash of an
\* unverified user, and an unverified user's wrong password is answered with
\* the generic "Incorrect email or password".
C31_PasswordBeforeFlag ==
    request.op = "login" =>
        LET user == get_user_by_email(request.email)
        IN  /\ response.detail = EmailNotVerified
               => /\ user.id # None
                  /\ ~user.is_verified
                  /\ verify_password(request.password, user.password_hash)
            /\ (/\ user.id # None
                /\ ~user.is_verified
                /\ ~verify_password(request.password, user.password_hash))
               => /\ response.status = 401
                  /\ response.detail = "Incorrect email or password"

\* C31 witness: an unverified user's Login with a wrong password, answered
\* with the generic detail
C31_Witness ==
    /\ request.op = "login"
    /\ get_user_by_email(request.email).id # None
    /\ ~get_user_by_email(request.email).is_verified
    /\ ~verify_password(request.password, get_user_by_email(request.email).password_hash)
    /\ response.detail = "Incorrect email or password"

\* C32: Login does not reveal whether an e-mail is registered: a Login is
\* answered as login_response says, and for any passwords the answer for an
\* unknown e-mail is the same response (status 401, same detail, no cookie,
\* no token) as the answer for a registered e-mail with a wrong password,
\* whether that user is verified or not.
C32_LoginHidesRegistration ==
    /\ request.op = "login" => response = login_response(request.email, request.password)
    /\ \A unknown \in Emails, known \in Emails, password \in Passwords, wrong \in Passwords :
          (/\ get_user_by_email(unknown).id = None
           /\ get_user_by_email(known).id # None
           /\ ~verify_password(wrong, get_user_by_email(known).password_hash))
          => /\ login_response(unknown, password) = login_response(known, wrong)
             /\ login_response(unknown, password).status = 401
             /\ login_response(unknown, password).cookie_op = "none"

\* C32 witness: a Login with an unknown e-mail was answered while a verified
\* user is registered under the other e-mail
C32_Witness ==
    /\ request.op = "login"
    /\ get_user_by_email(request.email).id = None
    /\ response.status = 401
    /\ \E known \in Emails : get_user_by_email(known).is_verified

\* C33: the resolver never falls back from the header to the cookie: a
\* request whose bearer token is present and is invalid (foreign signature,
\* no subject, unknown user) or expired is answered 401 even when its
\* session_token cookie is a valid token, and with a bearer token present the
\* answer is the same whatever the cookie holds.
C33_NoFallbackToCookie ==
    (request.op = "me" /\ request.bearer_token # NoToken)
    => /\ (\/ request.bearer_token.key # SECRET_KEY
           \/ request.bearer_token.exp < now
           \/ request.bearer_token.sub = None
           \/ get_user(request.bearer_token.sub).id = None)
          => response = credentials_exception
       /\ \A session_token \in Credentials :
             get_current_user(request.bearer_token, session_token) = response

\* C33 witness: an expired bearer token with a cookie that alone would be
\* accepted, answered 401
C33_Witness ==
    /\ request.op = "me"
    /\ request.bearer_token.key = SECRET_KEY
    /\ request.bearer_token.exp < now
    /\ get_current_user(NoToken, request.session_token).status = 200
    /\ response = credentials_exception

\* C34: create_access_token treats a zero lifetime as unspecified: the token
\* it issues for a zero expires_delta expires 15 minutes after the instant of
\* issue and is accepted at that instant, and for any other expires_delta D
\* the token expires at the instant of issue plus D.
C34_ZeroLifetimeIsDefault ==
    request.op = "create_access_token" =>
        /\ response.access_token.sub = request.sub
        /\ request.expires_delta = 0
           => /\ response.access_token.exp = now + 15
              /\ verify_token(response.access_token) # NoPayload
        /\ request.expires_delta # 0
           => response.access_token.exp = now + request.expires_delta

\* C34 witness: a token issued with a zero lifetime at a later instant than 0
C34_Witness ==
    /\ request.op = "create_access_token"
    /\ request.expires_delta = 0
    /\ now > 0
    /\ response.access_token.exp > now

\* C35: Login (answered 200 or refused), Logout and Get-current-identity
\* leave the store unchanged: the tenants, the users with their is_verified
\* and verification_token, and the in-memory store's indexes are after the
\* request what they were before it, and no id or token is used up.
C35_ReadOnlyRequests ==
    [][request'.op \in {"login", "logout", "me"}
          => /\ store' = store
             /\ <<tenant_uuids, user_uuids, tokens_generated>>'
                   = <<tenant_uuids, user_uuids, tokens_generated>>]_vars

\* C35 witness: a Login answered 200 for a stored user who is still verified
\* and still holds its record
C35_Witness ==
    /\ request.op = "login"
    /\ response.status = 200
    /\ get_user(response.user_id).is_verified
    /\ now > 0

\* C36: the result of the e-mail transport changes nothing of what Register
\* and Verify commit or answer: a Register that reached the sending of its
\* mail is answered 201 with the user stored as pending under the mailed
\* token, whether the mail was sent or not; a Verify with a token a user is
\* found by is answered 200 with that user stored as verified, whether the
\* welcome mail was sent, failed, or was not attempted for want of a tenant.
C36_MailResultIgnored ==
    [][/\ \A mail \in response'.mails :
             request'.op = "register"
             => /\ response'.status = 201
                /\ response'.detail = UserRegistered
                /\ \E user_id \in 1..MaxUsers :
                      /\ user_id = response'.user_id
                      /\ get_user(user_id).id = None
                      /\ get_user(user_id)'.email = mail.to
                      /\ ~get_user(user_id)'.is_verified
                      /\ get_user(user_id)'.verification_token = mail.token
       /\ \A user_id \in 1..MaxUsers :
             (/\ request'.op = "verify"
              /\ get_user_by_verification_token(request'.token).id = user_id)
             => /\ response'.status = 200
                /\ response'.detail = "Email verified successfully"
                /\ get_user(user_id)'.is_verified]_vars

\* C36 witness: a Verify answered 200 whose welcome mail the transport failed
\* to send, the user being stored as verified
C36_Witness ==
    /\ request.op = "verify"
    /\ response.status = 200
    /\ \E mail \in response.mails :
          /\ ~mail.sent
          /\ get_user_by_email(mail.to).is_verified

\* C37: with DATABASE_TYPE = 'mock' and the store resolved for each request
\* by the factory, what a request wrote is there for the next: a Login with
\* the e-mail and password of the Register answered 201 just before finds
\* the user (and refuses it as not verified), and a Verify with the mailed
\* token that follows the Register is answered 200.
C37_MockDataVisibleLater ==
    [][(/\ database_type = "mock"
        /\ request.op = "register"
        /\ response.status = 201)
       => /\ (/\ request'.op = "login"
              /\ request'.email = request.email
              /\ request'.password \in AccountPasswords)
             => response'.detail = EmailNotVerified
          /\ (/\ request'.op = "verify"
              /\ \E mail \in response.mails : mail.token = request'.token)
             => response'.status = 200]_vars

====
